---- MODULE Spec2Model ----
(***************************************************************************)
(* The webhook-driven user directory of prima-backend (main.go): the       *)
(* per-client token-bucket limiter store with its background sweep, the    *)
(* admission middleware, and the three route handlers.                     *)
(*                                                                         *)
(* Time is a discrete clock of ticks, TicksPerSecond ticks to the second.  *)
(* A bucket's tokens are kept in units of 1/TicksPerSecond of a token, so  *)
(* that the refill of rate.Limiter (elapsed seconds * limit) is exact:     *)
(* e ticks at a limit of r tokens per second refill e * r units, and one   *)
(* token is TicksPerSecond units.                                          *)
(***************************************************************************)
EXTENDS Integers, Sequences, FiniteSets, TLC

VARIABLES
    now,          \* the wall clock, in ticks (time.Now())
    tickPending,  \* the sweep ticker's channel t.C holds a tick (buffer of 1)
    sweepPc,      \* position of the sweep goroutine
    mu,           \* ls.mu: "" when free, else the holder
    clients,      \* ls.clients: ip -> [limiter, lastSeen]
    limiters,     \* the heap of *rate.Limiter objects: id -> bucket state
    cfg,          \* ls.r, ls.burst, webhookSecret, dsn, and how far main has got
    req,          \* the request each server goroutine is handling
    users,        \* the users table: its rows, in the order of their serial id
    hist,         \* history of admission outcomes, kept while hist.on
    probe         \* a function applied on its own: its input and its result

vars == <<now, tickPending, sweepPc, mu, clients, limiters, cfg, req, users, hist,
          probe>>

(***************************************************************************)
(* Bounds of the model.                                                    *)
(***************************************************************************)
TicksPerSecond == 20
MaxChecks == 25
MaxFineTick == 4
SmallBurst == 1
MaxDeliveries == 4
MaxEmails == 2
MaxTokens == 2
MaxRateChecks == 6

(***************************************************************************)
(* Program constants.                                                      *)
(***************************************************************************)
SweepMinutes == 2
StaleMinutes == 10
MainRate == 10
MainBurst == 20
StatusOK == 200
StatusBadRequest == 400
StatusUnauthorized == 401
StatusTooManyRequests == 429
StatusInternalServerError == 500

SweepTicks == SweepMinutes * 60 * TicksPerSecond
StaleTicks == StaleMinutes * 60 * TicksPerSecond
Token == TicksPerSecond

\* The instants the clock takes under Spec: a tick apart at the start and
\* around the staleness threshold, so that an entry can be idle for less
\* than, exactly and more than the threshold when the sweep runs.
TimePoints == {0, 1, StaleTicks, StaleTicks + 1}
\* The instants the clock takes under SpecBurst: fractions of a refill interval.
FineTimePoints == 0 .. MaxFineTick

IPs == {"a", "b"}
Slots == {"s1", "s2"}
Routes == {"health", "users", "webhook"}
LimIds == 1 .. (Cardinality(IPs) + Cardinality(Slots))

(***************************************************************************)
(* golang.org/x/time/rate as main.go uses it: NewLimiter and Allow.        *)
(***************************************************************************)
NewLimiter(r, burst) ==
    [limit |-> r, burst |-> burst, tokens |-> burst * Token, last |-> 0]

\* A mutant of advance: the bucket is never refilled.
advanceNoRefill(lim, t) == lim.tokens

\* A variant of advance: the tokens are not capped at the burst.
advanceUncapped(lim, t) ==
    LET last == IF t < lim.last THEN t ELSE lim.last
    IN  lim.tokens + (t - last) * lim.limit

\* Limiter.advance: the tokens the bucket holds at time t.
advance(lim, t) ==
    LET last    == IF t < lim.last THEN t ELSE lim.last
        tokens  == lim.tokens + (t - last) * lim.limit
        maxTok  == lim.burst * Token
    IN  IF tokens > maxTok THEN maxTok ELSE tokens

\* A mutant of reserveN: the last token of the bucket is never given out.
reserveNStrict(lim, t, n) ==
    LET tokens == advance(lim, t) - n * Token
        ok     == n <= lim.burst /\ tokens > 0
    IN  [ok |-> ok,
         lim |-> IF ok THEN [lim EXCEPT !.last = t, !.tokens = tokens] ELSE lim]

\* Limiter.reserveN(t, n, 0): take n tokens if the bucket holds them at t;
\* a refused request leaves the bucket as it was.
reserveN(lim, t, n) ==
    LET tokens == advance(lim, t) - n * Token
        ok     == n <= lim.burst /\ tokens >= 0
    IN  [ok |-> ok,
         lim |-> IF ok THEN [lim EXCEPT !.last = t, !.tokens = tokens] ELSE lim]

(***************************************************************************)
(* The limiter store.                                                      *)
(***************************************************************************)
NewId(lims) ==
    CHOOSE i \in LimIds : i \notin DOMAIN lims /\ \A j \in 1 .. (i - 1) : j \in DOMAIN lims

\* The limiters some map entry or some request still points to.
Live(lims, cl, rq) ==
    LET refs == {cl[ip].limiter : ip \in DOMAIN cl} \cup {rq[s].lim : s \in Slots}
    IN  [i \in DOMAIN lims \cap refs |-> lims[i]]

\* A mutant of stale: the threshold is taken in hours.
staleHours(c, t) == t - c.lastSeen > StaleTicks * 60

\* A variant of stale: an entry idle for exactly the threshold is stale.
staleAtThreshold(c, t) == t - c.lastSeen >= StaleTicks

\* The sweep's test on one entry.
stale(c, t) == t - c.lastSeen > StaleTicks


\* A mutant of ClientIP: every request is keyed by the same address.
ClientIPShared(rq) == "a"

\* The key the middleware looks the client up by (c.ClientIP()).
ClientIP(rq) == rq.ip

\* A mutant of found: get never finds the client's entry.
foundNever(cl, ip) == FALSE

\* A variant of found: the entry is not seen while a request that went
\* through get is still to be checked.
foundUnlessConcurrent(cl, ip) ==
    ip \in DOMAIN cl /\ \A s \in Slots : req[s].pc # "allow"

\* get's lookup: c, ok := ls.clients[ip].
found(cl, ip) == ip \in DOMAIN cl

\* A mutant of touch: get leaves the entry it found as it was.
touchForgotten(c, t) == c

\* get's update of an entry it found.
touch(c, t) == [c EXCEPT !.lastSeen = t]

\* A mutant of unlocked: get returns without releasing the lock.
unlockedNever(holder) == holder

\* ls.mu after the deferred ls.mu.Unlock() of its holder.
unlocked(holder) == ""

(***************************************************************************)
(* Strings.  A string is a sequence of chunks; a chunk stands for one or   *)
(* more bytes.  The separators the code splits on (" ", ",", "_", ".") are *)
(* chunks of their own, so that splitting, trimming and concatenation work *)
(* on the sequence as the Go functions work on the bytes.                  *)
(***************************************************************************)
RECURSIVE IndexOf(_, _, _)
\* The first index at or after i at which chunk sep occurs in s, 0 if none.
IndexOf(s, sep, i) ==
    IF i > Len(s) THEN 0
    ELSE IF s[i] = sep THEN i
    ELSE IndexOf(s, sep, i + 1)

\* strings.SplitN(s, sep, 2)
SplitN2(s, sep) ==
    LET i == IndexOf(s, sep, 1)
    IN  IF i = 0 THEN <<s>>
        ELSE <<SubSeq(s, 1, i - 1), SubSeq(s, i + 1, Len(s))>>

RECURSIVE Split(_, _)
\* strings.Split(s, sep)
Split(s, sep) ==
    LET i == IndexOf(s, sep, 1)
    IN  IF i = 0 THEN <<s>>
        ELSE <<SubSeq(s, 1, i - 1)>> \o Split(SubSeq(s, i + 1, Len(s)), sep)

RECURSIVE TrimSpace(_)
\* strings.TrimSpace
TrimSpace(s) ==
    IF s = <<>> THEN s
    ELSE IF Head(s) = " " THEN TrimSpace(Tail(s))
    ELSE IF s[Len(s)] = " " THEN TrimSpace(SubSeq(s, 1, Len(s) - 1))
    ELSE s

\* strings.ToLower, chunk by chunk.
LowerChunk(c) ==
    CASE c = "X@y.com" -> "x@y.com"
      [] c = "Z@W.com" -> "z@w.com"
      [] OTHER -> c

ToLower(s) == [i \in 1 .. Len(s) |-> LowerChunk(s[i])]

\* The base64 groups of the model and the bytes each decodes to.
B64 == ("a2V5" :> "key") @@ ("b3Ro" :> "oth")

\* base64.StdEncoding.DecodeString: an error on any chunk that is no group.
DecodeString(s) ==
    IF \E i \in 1 .. Len(s) : s[i] \notin DOMAIN B64
    THEN [err |-> TRUE, bytes |-> <<>>]
    ELSE [err |-> FALSE, bytes |-> [i \in 1 .. Len(s) |-> B64[s[i]]]]

\* HMAC-SHA256 as an ideal MAC: the sum names its key and its message, so two
\* sums are equal exactly when both are.
hmacSHA256(key, msg) == <<"hmac-sha256", key, msg>>

\* base64.StdEncoding.EncodeToString of a MAC sum: one chunk, injective.
EncodeToString(sum) == <<ToString(sum)>>

\* A variant of signedMsg: the timestamp is left out of the message.
signedMsgNoTimestamp(body, svixID, svixTimestamp) ==
    svixID \o <<".">> \o body

\* The signed message of verifySvix.
signedMsg(body, svixID, svixTimestamp) ==
    svixID \o <<".">> \o svixTimestamp \o <<".">> \o body

\* A variant of tokenMatches: the version tag is not compared.
tokenMatchesAnyTag(token, expected) ==
    LET p == SplitN2(token, ",")
    IN  Len(p) = 2 /\ p[2] = expected

\* One token of the svix-signature header against the expected signature.
tokenMatches(token, expected) ==
    LET p == SplitN2(token, ",")
    IN  Len(p) = 2 /\ p[1] = <<"v1">> /\ p[2] = expected

\* A variant of verifySvix: a signature verifies only at the instant the
\* server started, as under a tolerance on the age of the timestamp.
verifySvixFresh(body, secret, svixID, svixTimestamp, svixSignature) ==
    IF secret = <<>> \/ svixID = <<>> \/ svixTimestamp = <<>> \/ svixSignature = <<>>
    THEN FALSE
    ELSE LET parts == SplitN2(secret, "_") IN
         IF Len(parts) # 2 \/ now > 0 THEN FALSE
         ELSE LET key == DecodeString(parts[2]) IN
              IF key.err THEN FALSE
              ELSE LET expected == EncodeToString(
                           hmacSHA256(key.bytes, signedMsg(body, svixID, svixTimestamp)))
                       tokens == Split(svixSignature, " ")
                   IN  \E i \in 1 .. Len(tokens) : tokenMatches(tokens[i], expected)

\* A variant of verifySvix: the key is the part after the last separator.
verifySvixLastPart(body, secret, svixID, svixTimestamp, svixSignature) ==
    IF secret = <<>> \/ svixID = <<>> \/ svixTimestamp = <<>> \/ svixSignature = <<>>
    THEN FALSE
    ELSE LET parts == Split(secret, "_") IN
         IF Len(parts) < 2 THEN FALSE
         ELSE LET key == DecodeString(parts[Len(parts)]) IN
              IF key.err THEN FALSE
              ELSE LET expected == EncodeToString(
                           hmacSHA256(key.bytes, signedMsg(body, svixID, svixTimestamp)))
                       tokens == Split(svixSignature, " ")
                   IN  \E i \in 1 .. Len(tokens) : tokenMatches(tokens[i], expected)

\* A variant of verifySvix: the test for empty arguments is left out.
verifySvixNoEmptyTest(body, secret, svixID, svixTimestamp, svixSignature) ==
    LET parts == SplitN2(secret, "_") IN
    IF Len(parts) # 2 THEN FALSE
    ELSE LET key == DecodeString(parts[2]) IN
         IF key.err THEN FALSE
         ELSE LET expected == EncodeToString(
                      hmacSHA256(key.bytes, signedMsg(body, svixID, svixTimestamp)))
                  tokens == Split(svixSignature, " ")
              IN  \E i \in 1 .. Len(tokens) : tokenMatches(tokens[i], expected)

verifySvix(body, secret, svixID, svixTimestamp, svixSignature) ==
    IF secret = <<>> \/ svixID = <<>> \/ svixTimestamp = <<>> \/ svixSignature = <<>>
    THEN FALSE
    ELSE LET parts == SplitN2(secret, "_") IN
         IF Len(parts) # 2 THEN FALSE
         ELSE LET key == DecodeString(parts[2]) IN
              IF key.err THEN FALSE
              ELSE LET expected == EncodeToString(
                           hmacSHA256(key.bytes, signedMsg(body, svixID, svixTimestamp)))
                       tokens == Split(svixSignature, " ")
                   IN  \E i \in 1 .. Len(tokens) : tokenMatches(tokens[i], expected)

(***************************************************************************)
(* The webhook event: ClerkWebhookEvent, json.Unmarshal, the derived name  *)
(* and e-mail.                                                             *)
(***************************************************************************)
Event(type, id, username, first, last, primary, emails) ==
    [Type |-> type, ID |-> id, Username |-> username, FirstName |-> first,
     LastName |-> last, PrimaryEmailAddressID |-> primary, EmailAddresses |-> emails]

\* The bodies that are JSON documents, each with the event it unmarshals to;
\* any other body is malformed.
Docs ==
    (<<"{created u1 j}">> :>
        Event("user.created", <<"u1">>, <<"j">>, <<>>, <<>>, <<>>, <<>>))
    @@ (<<"{updated u1 Ann}">> :>
        Event("user.updated", <<" ", "u1">>, <<" ">>, <<"Ann">>, <<>>, <<"e2">>,
              <<[ID |-> <<"e1">>, EmailAddress |-> <<"X@y.com">>],
                [ID |-> <<"e2">>, EmailAddress |-> <<"Z@W.com", " ">>]>>))
    @@ (<<"{deleted u1}">> :>
        Event("user.deleted", <<"u1">>, <<>>, <<>>, <<>>, <<>>, <<>>))
    @@ (<<"{created blank}">> :>
        Event("user.created", <<" ">>, <<"j">>, <<>>, <<>>, <<>>, <<>>))
    @@ (<<"{session}">> :>
        Event("session.created", <<"u1">>, <<>>, <<>>, <<>>, <<>>, <<>>))
    @@ (<<"{created u2 k}">> :>
        Event("user.created", <<"u2">>, <<"k">>, <<>>, <<>>, <<>>, <<>>))
    @@ (<<"{updated u2 j}">> :>
        Event("user.updated", <<"u2">>, <<"j", " ">>, <<>>, <<>>, <<>>, <<>>))
    @@ (<<"{updated empty}">> :>
        Event("user.updated", <<>>, <<"j">>, <<>>, <<>>, <<>>, <<>>))
    @@ (<<"{deleted blank}">> :>
        Event("user.deleted", <<" ", " ">>, <<>>, <<>>, <<>>, <<>>, <<>>))

Unmarshal(body) ==
    IF body \in DOMAIN Docs
    THEN [err |-> FALSE, evt |-> Docs[body]]
    ELSE [err |-> TRUE, evt |-> Event("", <<>>, <<>>, <<>>, <<>>, <<>>, <<>>)]

\* pgtype.Text of a string.
toText(s) ==
    LET t == TrimSpace(s) IN [String |-> t, Valid |-> t # <<>>]

RECURSIVE firstEmail(_, _, _)
\* The first address from index i on that is not blank and, when id is given
\* (anyID false), belongs to the entry with that id; lower-cased, "" if none.
firstEmail(es, i, want) ==
    IF i > Len(es) THEN <<>>
    ELSE IF (want.any \/ es[i].ID = want.id) /\ TrimSpace(es[i].EmailAddress) # <<>>
         THEN ToLower(TrimSpace(es[i].EmailAddress))
         ELSE firstEmail(es, i + 1, want)

\* A variant of pickClerkEmail: the primary id is not looked at.
pickFirstAddress(evt) ==
    firstEmail(evt.EmailAddresses, 1, [any |-> TRUE, id |-> <<>>])

pickClerkEmail(evt) ==
    LET byID == IF evt.PrimaryEmailAddressID # <<>>
                THEN firstEmail(evt.EmailAddresses, 1,
                                [any |-> FALSE, id |-> evt.PrimaryEmailAddressID])
                ELSE <<>>
    IN  IF byID # <<>> THEN byID
        ELSE firstEmail(evt.EmailAddresses, 1, [any |-> TRUE, id |-> <<>>])

\* A variant of displayName: the names are tested for "" before they are trimmed.
displayNameUntrimmedTest(evt) ==
    LET full == evt.FirstName \o <<" ">> \o evt.LastName
    IN  IF full # <<>> THEN TrimSpace(full)
        ELSE IF evt.Username # <<>> THEN TrimSpace(evt.Username)
        ELSE <<"User">>

displayName(evt) ==
    LET full == TrimSpace(evt.FirstName \o <<" ">> \o evt.LastName)
        user == TrimSpace(evt.Username)
    IN  IF full # <<>> THEN full
        ELSE IF user # <<>> THEN user
        ELSE <<"User">>

(***************************************************************************)
(* The user store: the users table and the queries main.go calls.          *)
(***************************************************************************)
\* A null timestamp and a timestamp (deleted_at TIMESTAMPTZ).
NullTime == [Time |-> 0, Valid |-> FALSE]
Timestamp(t) == [Time |-> t, Valid |-> TRUE]

\* The row INSERT INTO users (clerk_id, username, name, email) makes: the
\* columns it does not name take their defaults (role 'user', is_active
\* TRUE, deleted_at null).
Row(clerk_id, username, name, email) ==
    [clerk_id |-> clerk_id, username |-> username, name |-> name, email |-> email,
     role |-> "user", is_active |-> TRUE, deleted_at |-> NullTime]

\* The positions of the rows of clerk_id id.
RowsOf(tbl, id) == {i \in 1 .. Len(tbl) : tbl[i].clerk_id = id}

\* The unique index on username: some other row holds the non-null username.
usernameTaken(tbl, p) ==
    /\ p.Username.Valid
    /\ \E i \in 1 .. Len(tbl) :
           tbl[i].clerk_id # p.ClerkID /\ tbl[i].username = p.Username

\* A variant of UpsertByClerkID: no ON CONFLICT clause, every call inserts.
UpsertAlwaysInserting(tbl, p) ==
    IF usernameTaken(tbl, p)
    THEN [err |-> "duplicate key", tbl |-> tbl]
    ELSE [err |-> "", tbl |-> Append(tbl, Row(p.ClerkID, p.Username, p.Name, p.Email))]

\* A variant of UpsertByClerkID: DO UPDATE also sets role = EXCLUDED.role.
UpsertResettingRole(tbl, p) ==
    IF usernameTaken(tbl, p)
    THEN [err |-> "duplicate key", tbl |-> tbl]
    ELSE IF RowsOf(tbl, p.ClerkID) # {}
    THEN [err |-> "",
          tbl |-> [i \in 1 .. Len(tbl) |->
                      IF tbl[i].clerk_id = p.ClerkID
                      THEN [tbl[i] EXCEPT !.username = p.Username,
                                          !.name = p.Name,
                                          !.email = IF p.Email.Valid THEN p.Email ELSE @,
                                          !.role = "user"]
                      ELSE tbl[i]]]
    ELSE [err |-> "", tbl |-> Append(tbl, Row(p.ClerkID, p.Username, p.Name, p.Email))]

\* A variant of UpsertByClerkID: DO UPDATE sets email = EXCLUDED.email.
UpsertOverwritingEmail(tbl, p) ==
    IF usernameTaken(tbl, p)
    THEN [err |-> "duplicate key", tbl |-> tbl]
    ELSE IF RowsOf(tbl, p.ClerkID) # {}
    THEN [err |-> "",
          tbl |-> [i \in 1 .. Len(tbl) |->
                      IF tbl[i].clerk_id = p.ClerkID
                      THEN [tbl[i] EXCEPT !.username = p.Username,
                                          !.name = p.Name,
                                          !.email = p.Email]
                      ELSE tbl[i]]]
    ELSE [err |-> "", tbl |-> Append(tbl, Row(p.ClerkID, p.Username, p.Name, p.Email))]

\* A variant of UpsertByClerkID: DO UPDATE sets
\* username = COALESCE(EXCLUDED.username, users.username).
UpsertKeepingUsername(tbl, p) ==
    IF usernameTaken(tbl, p)
    THEN [err |-> "duplicate key", tbl |-> tbl]
    ELSE IF RowsOf(tbl, p.ClerkID) # {}
    THEN [err |-> "",
          tbl |-> [i \in 1 .. Len(tbl) |->
                      IF tbl[i].clerk_id = p.ClerkID
                      THEN [tbl[i] EXCEPT !.username = IF p.Username.Valid
                                                       THEN p.Username ELSE @,
                                          !.name = p.Name,
                                          !.email = IF p.Email.Valid THEN p.Email ELSE @]
                      ELSE tbl[i]]]
    ELSE [err |-> "", tbl |-> Append(tbl, Row(p.ClerkID, p.Username, p.Name, p.Email))]

\* UpsertByClerkID: INSERT ... ON CONFLICT (clerk_id) DO UPDATE SET username,
\* name, email = COALESCE(EXCLUDED.email, users.email).
UpsertByClerkID(tbl, p) ==
    IF usernameTaken(tbl, p)
    THEN [err |-> "duplicate key", tbl |-> tbl]
    ELSE IF RowsOf(tbl, p.ClerkID) # {}
    THEN [err |-> "",
          tbl |-> [i \in 1 .. Len(tbl) |->
                      IF tbl[i].clerk_id = p.ClerkID
                      THEN [tbl[i] EXCEPT !.username = p.Username,
                                          !.name = p.Name,
                                          !.email = IF p.Email.Valid THEN p.Email ELSE @]
                      ELSE tbl[i]]]
    ELSE [err |-> "", tbl |-> Append(tbl, Row(p.ClerkID, p.Username, p.Name, p.Email))]

\* SoftDeleteUserByClerkID, the query the handler does not call: UPDATE users
\* SET deleted_at = NOW(), is_active = FALSE WHERE clerk_id = $1.
SoftDeleteUserByClerkID(tbl, id, t) ==
    [err |-> "",
     tbl |-> [i \in 1 .. Len(tbl) |->
                 IF tbl[i].clerk_id = id
                 THEN [tbl[i] EXCEPT !.is_active = FALSE, !.deleted_at = Timestamp(t)]
                 ELSE tbl[i]]]

\* A variant of DeleteUserByClerkID: deleting no row is an error.
DeleteExistingByClerkID(tbl, id, t) ==
    IF \A i \in 1 .. Len(tbl) : tbl[i].clerk_id # id
    THEN [err |-> "no rows", tbl |-> tbl]
    ELSE [err |-> "", tbl |-> SelectSeq(tbl, LAMBDA row : row.clerk_id # id)]

\* DeleteUserByClerkID: DELETE FROM users WHERE clerk_id = $1, run when the
\* database's clock reads t (the statement does not use NOW()).
DeleteUserByClerkID(tbl, id, t) ==
    [err |-> "", tbl |-> SelectSeq(tbl, LAMBDA row : row.clerk_id # id)]

\* The ways a call to the database fails of itself ("": it does not).
StoreFailures == {"", "connection refused"}

(***************************************************************************)
(* Requests and responses.                                                 *)
(***************************************************************************)
NoArg == [ClerkID |-> <<>>, Username |-> toText(<<>>), Name |-> <<>>, Email |-> toText(<<>>)]

\* A response body: the keys of the gin.H objects the handlers write.
NoBody == [ok |-> FALSE, type |-> "", ignored |-> "", error |-> "", status |-> "", db |-> ""]

NoInput == [readErr |-> FALSE, body |-> <<>>, svixID |-> <<>>,
            svixTimestamp |-> <<>>, svixSignature |-> <<>>]

IdleReq ==
    [pc |-> "idle", ip |-> "", route |-> "", lim |-> 0,
     in |-> NoInput,        \* what the webhook handler read from the request
     verified |-> "",       \* history: verifySvix ran, and its result
     parsed |-> FALSE,      \* history: json.Unmarshal ran on the body
     calls |-> 0,           \* history: store calls made for the request
     op |-> "", arg |-> NoArg,  \* the store call in flight
     err |-> "",            \* the error the store call returned ("": none)
     status |-> 0, body |-> NoBody]

\* What the webhook handler has decided when it answers or calls the store.
Outcome(status, body, verified, parsed, op, arg) ==
    [status |-> status, body |-> body, verified |-> verified, parsed |-> parsed,
     op |-> op, arg |-> arg]

Ack(type) == [NoBody EXCEPT !.ok = TRUE, !.type = type]

\* The call of UpsertByClerkID and that of DeleteUserByClerkID the handler
\* makes for an event of subject id.
\* A variant of upsertCall: the subject id is passed as it came.
upsertCallRawID(evt, id) ==
    Outcome(0, Ack(evt.Type), "ok", TRUE, "upsert",
            [ClerkID |-> evt.ID, Username |-> toText(evt.Username),
             Name |-> displayName(evt), Email |-> toText(pickClerkEmail(evt))])

upsertCall(evt, id) ==
    Outcome(0, Ack(evt.Type), "ok", TRUE, "upsert",
            [ClerkID |-> id, Username |-> toText(evt.Username),
             Name |-> displayName(evt), Email |-> toText(pickClerkEmail(evt))])

deleteCall(evt, id) ==
    Outcome(0, Ack(evt.Type), "ok", TRUE, "delete", [NoArg EXCEPT !.ClerkID = id])

\* A variant of dispatch: the subject id is tested for "" before it is trimmed.
dispatchUntrimmedTest(evt) ==
    LET id == TrimSpace(evt.ID)
    IN  CASE evt.Type \in {"user.created", "user.updated"} ->
               IF evt.ID = <<>>
               THEN Outcome(StatusOK, [Ack(evt.Type) EXCEPT !.ignored = "missing id"],
                            "ok", TRUE, "", NoArg)
               ELSE upsertCall(evt, id)
          [] evt.Type = "user.deleted" ->
               IF evt.ID # <<>>
               THEN deleteCall(evt, id)
               ELSE Outcome(StatusOK, Ack(evt.Type), "ok", TRUE, "", NoArg)
          [] OTHER -> Outcome(StatusOK, Ack(evt.Type), "ok", TRUE, "", NoArg)

\* A variant of dispatch: the switch has a default case that upserts.
dispatchDefaultUpsert(evt) ==
    LET id == TrimSpace(evt.ID)
    IN  CASE evt.Type = "user.deleted" ->
               IF id # <<>>
               THEN deleteCall(evt, id)
               ELSE Outcome(StatusOK, Ack(evt.Type), "ok", TRUE, "", NoArg)
          [] OTHER ->
               IF id = <<>>
               THEN Outcome(StatusOK, [Ack(evt.Type) EXCEPT !.ignored = "missing id"],
                            "ok", TRUE, "", NoArg)
               ELSE upsertCall(evt, id)

\* The handler from the switch on: the event is parsed.
dispatch(evt) ==
    LET id == TrimSpace(evt.ID)
    IN  CASE evt.Type \in {"user.created", "user.updated"} ->
               IF id = <<>>
               THEN Outcome(StatusOK, [Ack(evt.Type) EXCEPT !.ignored = "missing id"],
                            "ok", TRUE, "", NoArg)
               ELSE upsertCall(evt, id)
          [] evt.Type = "user.deleted" ->
               IF id # <<>>
               THEN deleteCall(evt, id)
               ELSE Outcome(StatusOK, Ack(evt.Type), "ok", TRUE, "", NoArg)
          [] OTHER -> Outcome(StatusOK, Ack(evt.Type), "ok", TRUE, "", NoArg)

\* A mutant of handleWebhook: the body is parsed before the signature is checked.
handleWebhookParseFirst(in, secret) ==
    IF in.readErr THEN Outcome(StatusBadRequest, NoBody, "", FALSE, "", NoArg)
    ELSE LET u == Unmarshal(in.body) IN
         IF u.err THEN Outcome(StatusBadRequest, NoBody, "", TRUE, "", NoArg)
         ELSE IF ~verifySvix(in.body, secret, in.svixID, in.svixTimestamp, in.svixSignature)
         THEN Outcome(StatusUnauthorized, NoBody, "fail", TRUE, "", NoArg)
         ELSE dispatch(u.evt)

\* A variant of handleWebhook: with no secret configured the signature is
\* not checked.
handleWebhookOptionalSecret(in, secret) ==
    IF in.readErr THEN Outcome(StatusBadRequest, NoBody, "", FALSE, "", NoArg)
    ELSE IF /\ secret # <<>>
            /\ ~verifySvix(in.body, secret, in.svixID, in.svixTimestamp, in.svixSignature)
    THEN Outcome(StatusUnauthorized, NoBody, "fail", FALSE, "", NoArg)
    ELSE LET u == Unmarshal(in.body) IN
         IF u.err THEN Outcome(StatusBadRequest, NoBody, "ok", TRUE, "", NoArg)
         ELSE dispatch(u.evt)

\* The POST /webhooks/clerk handler up to its answer or its store call.
handleWebhook(in, secret) ==
    IF in.readErr THEN Outcome(StatusBadRequest, NoBody, "", FALSE, "", NoArg)
    ELSE IF ~verifySvix(in.body, secret, in.svixID, in.svixTimestamp, in.svixSignature)
    THEN Outcome(StatusUnauthorized, NoBody, "fail", FALSE, "", NoArg)
    ELSE LET u == Unmarshal(in.body) IN
         IF u.err THEN Outcome(StatusBadRequest, NoBody, "ok", TRUE, "", NoArg)
         ELSE dispatch(u.evt)

(***************************************************************************)
(* The requests the model sends.                                           *)
(***************************************************************************)
GoodSecret == <<"whsec", "_", "a2V5">>

\* The svix-signature header a sender holding key puts on (body, id, ts).
sigFor(key, svixID, svixTimestamp, body) ==
    <<"v1", ",">> \o EncodeToString(hmacSHA256(key, signedMsg(body, svixID, svixTimestamp)))

Delivery(body, sig) ==
    [readErr |-> FALSE, body |-> body, svixID |-> <<"msg1">>,
     svixTimestamp |-> <<"17">>, svixSignature |-> sig]

\* The deliveries Clerk signs: every event document.
SignedInputs ==
    {Delivery(b, sigFor(<<"key">>, <<"msg1">>, <<"17">>, b)) : b \in DOMAIN Docs}

WebhookInputs ==
    {Delivery(b, sigFor(<<"key">>, <<"msg1">>, <<"17">>, b)) : b \in DOMAIN Docs \cup {<<"{bad">>}}
    \cup {Delivery(b, <<"v1", ",", "forged">>) : b \in {<<"{created u1 j}">>, <<"{bad">>}}
    \cup {[NoInput EXCEPT !.readErr = TRUE]}

\* The history variable when it is not kept.
NoHist ==
    [on |-> FALSE, left |-> 0,
     admitted |-> [ip \in IPs |-> 0], denied |-> [ip \in IPs |-> 0],
     refusedAt |-> [ip \in IPs |-> 0], pending |-> [ip \in IPs |-> FALSE],
     raced |-> FALSE,
     since |-> [at |-> 0, admitted |-> 0]]

\* The history after an admission check of client ip at time t: the checks
\* admitted and refused so far, the time of the latest refusal, and whether
\* the latest check was refused.
Observe(h, ip, ok, t) ==
    IF ~h.on THEN h
    ELSE [h EXCEPT !.admitted[ip] = IF ok THEN @ + 1 ELSE @,
                   !.denied[ip] = IF ok THEN @ ELSE @ + 1,
                   !.refusedAt[ip] = IF ok THEN @ ELSE t,
                   !.pending[ip] = ~ok]

\* No function is applied on its own.
NoProbe == [fn |-> "", in |-> <<>>, out |-> <<>>, done |-> FALSE]

\* The history after request s has made the store call of outcome o: raced
\* is set when it is an upsert sent while the other request's upsert of
\* another subject is in flight and the table holds no active row.
ObserveCall(h, s, o, rq, tbl) ==
    IF /\ h.on
       /\ o.op = "upsert"
       /\ \A i \in 1 .. Len(tbl) : tbl[i].deleted_at.Valid
       /\ \E t \in Slots \ {s} :
              /\ rq[t].pc = "store" /\ rq[t].op = "upsert"
              /\ rq[t].arg.ClerkID # o.arg.ClerkID
    THEN [h EXCEPT !.raced = TRUE]
    ELSE h

InitServer ==
    /\ now = 0
    /\ tickPending = FALSE
    /\ sweepPc = "wait"
    /\ mu = ""
    /\ clients = <<>>
    /\ limiters = <<>>
    /\ req = [s \in Slots |-> IdleReq]

\* What main has set up when it serves: the limiter store's rate and burst,
\* the webhook secret and the connection string it read.
Config(burst, secret) ==
    [r |-> MainRate, burst |-> burst, secret |-> secret,
     dsn |-> "postgres://db", mainPc |-> "serving"]

\* The server with a burst small enough for a client to exhaust it within
\* a few requests.
Init ==
    /\ InitServer
    /\ probe = NoProbe
    /\ users = <<>>
    /\ cfg = Config(SmallBurst, GoodSecret)
    /\ hist = NoHist

\* The server as main builds it (10 per second, burst 20) and with a small
\* burst, with the history of MaxChecks admission checks.
InitBurst ==
    /\ InitServer
    /\ probe = NoProbe
    /\ cfg \in {Config(b, GoodSecret) :
                   b \in {MainBurst, SmallBurst + 1}}
    /\ users = <<>>
    /\ hist = [NoHist EXCEPT !.on = TRUE, !.left = MaxChecks]

\* What the database may hold when the server starts: nothing, or the row
\* of a user whose role an administrator has raised (the role column admits
\* 'user', 'admin' and 'superadmin').
InitialTables ==
    {<<>>,
     <<[Row(<<"u1">>, toText(<<"j">>), <<"j">>, toText(<<"x@y.com">>))
           EXCEPT !.role = "superadmin"]>>}

\* The server as main builds it, over a database that may hold a row, for
\* MaxDeliveries webhook deliveries.
InitStore ==
    /\ InitServer
    /\ probe = NoProbe
    /\ users \in InitialTables
    /\ cfg = Config(MainBurst, GoodSecret)
    /\ hist = [NoHist EXCEPT !.on = TRUE, !.left = MaxDeliveries]

(***************************************************************************)
(* Time and the sweep goroutine of newLimiterStore.                        *)
(***************************************************************************)
\* The clock reaches instant t; the ticker puts a tick in its channel when a
\* multiple of the sweep interval is passed (a tick already there stays).
Advance(t) ==
    /\ t > now
    /\ now' = t
    /\ tickPending' = (tickPending \/ t \div SweepTicks > now \div SweepTicks)
    /\ UNCHANGED <<sweepPc, mu, clients, limiters, cfg, req, users, hist, probe>>

\* for range t.C: the goroutine receives a tick.
SweepWake ==
    /\ cfg.mainPc = "serving"
    /\ sweepPc = "wait"
    /\ tickPending
    /\ tickPending' = FALSE
    /\ sweepPc' = "lock"
    /\ UNCHANGED <<now, mu, clients, limiters, cfg, req, users, hist, probe>>

\* ls.mu.Lock()
SweepLock ==
    /\ sweepPc = "lock"
    /\ mu = ""
    /\ mu' = "sweep"
    /\ sweepPc' = "pass"
    /\ UNCHANGED <<now, tickPending, clients, limiters, cfg, req, users, hist, probe>>

\* The pass over the map, then ls.mu.Unlock().
SweepPass ==
    /\ sweepPc = "pass"
    /\ clients' = [ip \in {i \in DOMAIN clients : ~stale(clients[i], now)} |-> clients[ip]]
    /\ limiters' = Live(limiters, clients', req)
    /\ mu' = ""
    /\ sweepPc' = "wait"
    /\ UNCHANGED <<now, tickPending, cfg, req, users, hist, probe>>

(***************************************************************************)
(* rateLimitMiddleware and limiterStore.get.                               *)
(***************************************************************************)
\* A mutant of GetLock: get goes on without taking the lock.
GetLockNoMutex(s, ip, route) ==
    /\ cfg.mainPc = "serving"
    /\ req[s].pc \in {"idle", "done"}
    /\ hist.on => hist.left > 0
    /\ hist' = IF hist.on THEN [hist EXCEPT !.left = @ - 1, !.raced = FALSE] ELSE hist
    /\ mu' = mu
    /\ req' = [req EXCEPT ![s] = [IdleReq EXCEPT !.pc = "get", !.ip = ip, !.route = route]]
    /\ UNCHANGED <<now, tickPending, sweepPc, clients, limiters, cfg, users, probe>>

\* A request of client ip for route enters the middleware on goroutine s and
\* get takes the lock (a request that waits for the lock has done nothing yet).
GetLock(s, ip, route) ==
    /\ cfg.mainPc = "serving"
    /\ req[s].pc \in {"idle", "done"}
    /\ mu = ""
    /\ hist.on => hist.left > 0
    /\ hist' = IF hist.on THEN [hist EXCEPT !.left = @ - 1, !.raced = FALSE] ELSE hist
    /\ mu' = s
    /\ req' = [req EXCEPT ![s] = [IdleReq EXCEPT !.pc = "get", !.ip = ip, !.route = route]]
    /\ UNCHANGED <<now, tickPending, sweepPc, clients, limiters, cfg, users, probe>>

\* The body of get, and the deferred ls.mu.Unlock() at its return.
GetReturn(s) ==
    LET ip == ClientIP(req[s]) IN
    /\ req[s].pc = "get"
    /\ IF found(clients, ip)
       THEN /\ clients' = [clients EXCEPT ![ip] = touch(@, now)]
            /\ limiters' = limiters
            /\ req' = [req EXCEPT ![s].pc = "allow", ![s].lim = clients[ip].limiter]
       ELSE LET id == NewId(limiters) IN
            /\ limiters' = (id :> NewLimiter(cfg.r, cfg.burst)) @@ limiters
            /\ clients' = (ip :> [limiter |-> id, lastSeen |-> now]) @@ clients
            /\ req' = [req EXCEPT ![s].pc = "allow", ![s].lim = id]
    /\ mu' = unlocked(mu)
    /\ UNCHANGED <<now, tickPending, sweepPc, cfg, users, hist, probe>>

\* A mutant of Allow: after the 429 the middleware goes on to the handler.
AllowNoAbort(s) ==
    LET res == reserveN(limiters[req[s].lim], now, 1) IN
    /\ req[s].pc = "allow"
    /\ req' = [req EXCEPT
                 ![s].lim = 0,
                 ![s].pc = "handler",
                 ![s].status = IF res.ok THEN 0 ELSE StatusTooManyRequests,
                 ![s].body = IF res.ok THEN NoBody
                             ELSE [NoBody EXCEPT !.error = "rate limit exceeded"]]
    /\ limiters' = Live([limiters EXCEPT ![req[s].lim] = res.lim], clients, req')
    /\ hist' = Observe(hist, req[s].ip, res.ok, now)
    /\ UNCHANGED <<now, tickPending, sweepPc, mu, clients, cfg, users, probe>>

\* Allow() on the limiter get returned: on a refusal the middleware answers
\* 429 and aborts, else it calls c.Next().
Allow(s) ==
    LET res == reserveN(limiters[req[s].lim], now, 1) IN
    /\ req[s].pc = "allow"
    /\ req' = [req EXCEPT
                 ![s].lim = 0,
                 ![s].pc = IF res.ok THEN "handler" ELSE "done",
                 ![s].status = IF res.ok THEN 0 ELSE StatusTooManyRequests,
                 ![s].body = IF res.ok THEN NoBody
                             ELSE [NoBody EXCEPT !.error = "rate limit exceeded"]]
    /\ limiters' = Live([limiters EXCEPT ![req[s].lim] = res.lim], clients, req')
    /\ hist' = Observe(hist, req[s].ip, res.ok, now)
    /\ UNCHANGED <<now, tickPending, sweepPc, mu, clients, cfg, users, probe>>

(***************************************************************************)
(* The route handlers.                                                     *)
(***************************************************************************)
\* GET /health: the probe SELECT 1 is sent.
Health(s) ==
    /\ req[s].pc = "handler"
    /\ req[s].route = "health"
    /\ req' = [req EXCEPT ![s].pc = "store", ![s].op = "ping", ![s].calls = @ + 1]
    /\ UNCHANGED <<now, tickPending, sweepPc, mu, clients, limiters, cfg, users, hist, probe>>

\* GET /users: ListUsers is sent.
Users(s) ==
    /\ req[s].pc = "handler"
    /\ req[s].route = "users"
    /\ req' = [req EXCEPT ![s].pc = "store", ![s].op = "list", ![s].calls = @ + 1]
    /\ UNCHANGED <<now, tickPending, sweepPc, mu, clients, limiters, cfg, users, hist, probe>>

\* POST /webhooks/clerk with the request in: up to the answer or the store call.
Webhook(s, in) ==
    LET o == handleWebhook(in, cfg.secret) IN
    /\ req[s].pc = "handler"
    /\ req[s].route = "webhook"
    /\ req' = [req EXCEPT ![s].pc = IF o.op = "" THEN "done" ELSE "store",
                          ![s].in = in,
                          ![s].verified = o.verified,
                          ![s].parsed = o.parsed,
                          ![s].op = o.op,
                          ![s].arg = o.arg,
                          ![s].calls = IF o.op = "" THEN @ ELSE @ + 1,
                          ![s].status = o.status,
                          ![s].body = o.body]
    /\ hist' = ObserveCall(hist, s, o, req, users)
    /\ UNCHANGED <<now, tickPending, sweepPc, mu, clients, limiters, cfg, users, probe>>

\* A variant of answer: the error of the store call is not looked at.
answerIgnoringErr(rq, err) ==
    CASE rq.op = "ping" -> [status |-> StatusOK,
                            body |-> [NoBody EXCEPT !.status = "ok", !.db = "up"]]
      [] rq.op = "list" -> [status |-> StatusOK, body |-> NoBody]
      [] OTHER -> [status |-> StatusOK, body |-> rq.body]

\* A variant of answer: a failed probe of /health is a server error.
answerHealthFailing(rq, err) ==
    CASE err # "" ->
           [status |-> StatusInternalServerError, body |-> [NoBody EXCEPT !.error = err]]
      [] rq.op = "ping" ->
           [status |-> StatusOK, body |-> [NoBody EXCEPT !.status = "ok", !.db = "up"]]
      [] rq.op = "list" -> [status |-> StatusOK, body |-> NoBody]
      [] OTHER -> [status |-> StatusOK, body |-> rq.body]

\* The answer to a store call that returned err ("": none): the rest of the
\* handler that made it.
answer(rq, err) ==
    CASE rq.op = "ping" ->
           [status |-> StatusOK,
            body |-> IF err # "" THEN [NoBody EXCEPT !.status = "degraded", !.db = "down"]
                     ELSE [NoBody EXCEPT !.status = "ok", !.db = "up"]]
      [] err # "" ->
           [status |-> StatusInternalServerError, body |-> [NoBody EXCEPT !.error = err]]
      [] rq.op = "list" -> [status |-> StatusOK, body |-> NoBody]
      [] OTHER -> [status |-> StatusOK, body |-> rq.body]

\* A variant of StoreReturn: a call that failed is made once more.
StoreReturnRetrying(s, fail) ==
    LET rq  == req[s]
        res == CASE fail # "" -> [err |-> fail, tbl |-> users]
                 [] rq.op = "upsert" -> UpsertByClerkID(users, rq.arg)
                 [] rq.op = "delete" -> DeleteUserByClerkID(users, rq.arg.ClerkID, now)
                 [] OTHER -> [err |-> "", tbl |-> users]
        a   == answer(rq, res.err)
    IN
    /\ rq.pc = "store"
    /\ users' = res.tbl
    /\ req' = IF res.err # "" /\ rq.calls < 2
              THEN [req EXCEPT ![s].calls = @ + 1]
              ELSE [req EXCEPT ![s].pc = "done", ![s].err = res.err,
                               ![s].status = a.status, ![s].body = a.body]
    /\ UNCHANGED <<now, tickPending, sweepPc, mu, clients, limiters, cfg, hist, probe>>

\* The store call of request s returns, failed of itself (fail) or executed.
StoreReturn(s, fail) ==
    LET rq  == req[s]
        res == CASE fail # "" -> [err |-> fail, tbl |-> users]
                 [] rq.op = "upsert" -> UpsertByClerkID(users, rq.arg)
                 [] rq.op = "delete" -> DeleteUserByClerkID(users, rq.arg.ClerkID, now)
                 [] OTHER -> [err |-> "", tbl |-> users]
        a   == answer(rq, res.err)
    IN
    /\ rq.pc = "store"
    /\ users' = res.tbl
    /\ req' = [req EXCEPT ![s].pc = "done", ![s].err = res.err,
                          ![s].status = a.status, ![s].body = a.body]
    /\ UNCHANGED <<now, tickPending, sweepPc, mu, clients, limiters, cfg, hist, probe>>

Serve ==
    \E s \in Slots :
        \/ \E ip \in IPs, route \in Routes : GetLock(s, ip, route)
        \/ GetReturn(s)
        \/ Allow(s)
        \/ Health(s)
        \/ Users(s)
        \/ \E in \in WebhookInputs : Webhook(s, in)
        \/ \E fail \in StoreFailures : StoreReturn(s, fail)

Sweep == SweepWake \/ SweepLock \/ SweepPass

Time == \E t \in TimePoints : Advance(t)

\* The whole server.
Next == Serve \/ Sweep \/ Time

Spec == Init /\ [][Next]_vars

\* The requests alone, at one instant: the middleware, the three handlers
\* and the store.
SpecServe == Init /\ [][Serve]_vars

\* The limiter store over time: requests of both clients to /health, the
\* clock and the sweep.
NextSweep ==
    \/ \E s \in Slots :
        \/ \E ip \in IPs : GetLock(s, ip, "health")
        \/ GetReturn(s)
        \/ Allow(s)
        \/ Health(s)
        \/ \E fail \in StoreFailures : StoreReturn(s, fail)
    \/ Sweep
    \/ Time

SpecSweep == Init /\ [][NextSweep]_vars

\* One client's requests to /health, with the clock moving by fractions of
\* a refill interval and no sweep falling due.
NextBurst ==
    \/ \E s \in Slots :
        \/ GetLock(s, "a", "health")
        \/ GetReturn(s)
        \/ Allow(s)
        \/ Health(s)
        \/ \E fail \in StoreFailures : StoreReturn(s, fail)
    \/ \E t \in FineTimePoints : Advance(t)

SpecBurst == InitBurst /\ [][NextBurst]_vars

\* The webhook route and the store: signed deliveries from one address.
NextStore ==
    \E s \in Slots :
        \/ GetLock(s, "a", "webhook")
        \/ GetReturn(s)
        \/ Allow(s)
        \/ \E in \in SignedInputs : Webhook(s, in)
        \/ \E fail \in StoreFailures : StoreReturn(s, fail)

SpecStore == InitStore /\ [][NextStore]_vars

\* One signed delivery sent again and again while the clock moves on.
ReplayedDelivery ==
    Delivery(<<"{created u1 j}">>,
             sigFor(<<"key">>, <<"msg1">>, <<"17">>, <<"{created u1 j}">>))

NextReplay ==
    \/ \E s \in Slots :
        \/ GetLock(s, "a", "webhook")
        \/ GetReturn(s)
        \/ Allow(s)
        \/ Webhook(s, ReplayedDelivery)
        \/ \E fail \in StoreFailures : StoreReturn(s, fail)
    \/ Time

SpecReplay == InitStore /\ [][NextReplay]_vars

\* One client's admission checks counted over an interval: as SpecBurst,
\* with the history taking note, at any moment, of the time and of the
\* number of checks of client a admitted so far.
InitRate ==
    /\ InitServer
    /\ probe = NoProbe
    /\ users = <<>>
    /\ cfg = Config(SmallBurst + 1, GoodSecret)
    /\ hist = [NoHist EXCEPT !.on = TRUE, !.left = MaxRateChecks]

StartInterval ==
    /\ hist.since # [at |-> now, admitted |-> hist.admitted["a"]]
    /\ hist' = [hist EXCEPT !.since = [at |-> now, admitted |-> hist.admitted["a"]]]
    /\ UNCHANGED <<now, tickPending, sweepPc, mu, clients, limiters, cfg, req, users, probe>>

NextRate ==
    \/ NextBurst
    \/ StartInterval

SpecRate == InitRate /\ [][NextRate]_vars

\* The process from its start: main reads DATABASE_URL, connects and pings
\* (connected: both succeed), and only then builds the limiter store,
\* registers the routes and serves.  Client a sends health requests.
InitStart ==
    /\ InitServer
    /\ probe = NoProbe
    /\ users = <<>>
    /\ cfg \in {[Config(MainBurst, GoodSecret) EXCEPT !.dsn = d, !.mainPc = "start"] :
                   d \in {"", "postgres://db"}}
    /\ hist = NoHist

\* A variant of main: the connection string is not tested.
mainNoTest(connected) ==
    /\ cfg.mainPc = "start"
    /\ cfg' = [cfg EXCEPT !.mainPc = "serving"]
    /\ UNCHANGED <<now, tickPending, sweepPc, mu, clients, limiters, req, users, hist, probe>>

main(connected) ==
    /\ cfg.mainPc = "start"
    /\ cfg' = [cfg EXCEPT !.mainPc = IF cfg.dsn = "" \/ ~connected
                                     THEN "panic" ELSE "serving"]
    /\ UNCHANGED <<now, tickPending, sweepPc, mu, clients, limiters, req, users, hist, probe>>

NextStart ==
    \/ \E connected \in BOOLEAN : main(connected)
    \/ \E s \in Slots :
        \/ GetLock(s, "a", "health")
        \/ GetReturn(s)
        \/ Allow(s)
        \/ Health(s)
        \/ \E fail \in StoreFailures : StoreReturn(s, fail)

SpecStart == InitStart /\ [][NextStart]_vars

\* The webhook route with a database that may stop answering and a request
\* context that may be cancelled (the sender closes the connection).
LiveInputs ==
    {Delivery(b, sigFor(<<"key">>, <<"msg1">>, <<"17">>, b)) :
        b \in {<<"{created u1 j}">>, <<"{deleted u1}">>, <<"{session}">>, <<"{bad">>}}
    \cup {Delivery(<<"{created u1 j}">>, <<"v1", ",", "forged">>)}

\* The database stops answering the call of request s.
StoreHangs(s) ==
    /\ req[s].route = "webhook"
    /\ req[s].pc = "store"
    /\ req' = [req EXCEPT ![s].pc = "hung"]
    /\ UNCHANGED <<now, tickPending, sweepPc, mu, clients, limiters, cfg, users, hist, probe>>

\* A variant of ContextDone: the call was made with a context of its own
\* and does not see the request's context end.
ContextDoneUnseen(s) ==
    /\ req[s].pc \in {"store", "hung"}
    /\ UNCHANGED vars

\* The context of request s ends while its store call is in flight: the
\* call returns the context's error and the handler answers it.
ContextDone(s) ==
    LET a == answer(req[s], "context canceled") IN
    /\ req[s].pc \in {"store", "hung"}
    /\ req' = [req EXCEPT ![s].pc = "done", ![s].err = "context canceled",
                          ![s].status = a.status, ![s].body = a.body]
    /\ UNCHANGED <<now, tickPending, sweepPc, mu, clients, limiters, cfg, users, hist, probe>>

NextLive ==
    \E s \in Slots :
        \/ GetLock(s, "a", "webhook")
        \/ GetReturn(s)
        \/ Allow(s)
        \/ \E in \in LiveInputs : Webhook(s, in)
        \/ \E fail \in StoreFailures : StoreReturn(s, fail)
        \/ StoreHangs(s)
        \/ ContextDone(s)

\* Fairness: a request's goroutine goes on running (get, Allow and the
\* handler are taken when they can be), and a request whose store call is
\* in flight has its context ended at last if nothing else ends the call.
SpecLive ==
    /\ InitStore
    /\ [][NextLive]_vars
    /\ \A s \in Slots :
          /\ WF_vars(GetReturn(s))
          /\ WF_vars(Allow(s))
          /\ WF_vars(\E in \in LiveInputs : Webhook(s, in))
          /\ WF_vars(ContextDone(s))

\* The server started with CLERK_WEBHOOK_SECRET unset: os.Getenv gives "".
\* Client a sends webhook and health requests; the deliveries are those of
\* WebhookInputs and those signed with the empty key.
NoSecretInputs ==
    WebhookInputs
    \cup {Delivery(b, sigFor(<<>>, <<"msg1">>, <<"17">>, b)) :
             b \in {<<"{created u1 j}">>, <<"{deleted u1}">>}}

InitNoSecret ==
    /\ InitServer
    /\ probe = NoProbe
    /\ users \in InitialTables
    /\ cfg = Config(MainBurst, <<>>)
    /\ hist = [NoHist EXCEPT !.on = TRUE, !.left = MaxDeliveries]

NextNoSecret ==
    \E s \in Slots :
        \/ \E route \in {"webhook", "health"} : GetLock(s, "a", route)
        \/ GetReturn(s)
        \/ Allow(s)
        \/ Health(s)
        \/ \E in \in NoSecretInputs : Webhook(s, in)
        \/ \E fail \in StoreFailures : StoreReturn(s, fail)

SpecNoSecret == InitNoSecret /\ [][NextNoSecret]_vars

(***************************************************************************)
(* pickClerkEmail applied on its own to the events of EmailEvents.         *)
(***************************************************************************)
\* The entries an event's email_addresses may hold, and the lists of them.
EmailEntries ==
    {[ID |-> i, EmailAddress |-> a] :
        i \in {<<"e1">>, <<"e2">>},
        a \in {<<>>, <<" ">>, <<"X@y.com">>, <<" ", "Z@W.com", " ">>}}

EmailLists ==
    UNION {[1 .. n -> EmailEntries] : n \in 0 .. MaxEmails}

EmailEvents ==
    {Event("user.created", <<"u1">>, <<>>, <<>>, <<>>, primary, emails) :
        primary \in {<<>>, <<"e1">>, <<"e2">>, <<"missing">>},
        emails \in EmailLists}

InitEmail ==
    /\ InitServer
    /\ users = <<>>
    /\ cfg = Config(MainBurst, GoodSecret)
    /\ hist = NoHist
    /\ probe \in {[fn |-> "pickClerkEmail", in |-> e, out |-> <<>>, done |-> FALSE] :
                      e \in EmailEvents}

PickClerkEmail ==
    /\ probe.fn = "pickClerkEmail"
    /\ ~probe.done
    /\ probe' = [probe EXCEPT !.out = pickClerkEmail(probe.in), !.done = TRUE]
    /\ UNCHANGED <<now, tickPending, sweepPc, mu, clients, limiters, cfg, req, users, hist>>

SpecEmail == InitEmail /\ [][PickClerkEmail]_vars

(***************************************************************************)
(* The display name of the handler applied on its own to NameEvents.       *)
(***************************************************************************)
NameParts == {<<>>, <<" ">>, <<"Ann">>, <<" ", "Lee", " ">>}

NameEvents ==
    {Event("user.created", <<"u1">>, username, first, last, <<>>, <<>>) :
        username \in NameParts, first \in NameParts, last \in NameParts}

InitName ==
    /\ InitServer
    /\ users = <<>>
    /\ cfg = Config(MainBurst, GoodSecret)
    /\ hist = NoHist
    /\ probe \in {[fn |-> "displayName", in |-> e, out |-> <<>>, done |-> FALSE] :
                      e \in NameEvents}

DisplayName ==
    /\ probe.fn = "displayName"
    /\ ~probe.done
    /\ probe' = [probe EXCEPT !.out = displayName(probe.in), !.done = TRUE]
    /\ UNCHANGED <<now, tickPending, sweepPc, mu, clients, limiters, cfg, req, users, hist>>

SpecName == InitName /\ [][DisplayName]_vars

(***************************************************************************)
(* verifySvix applied on its own to SvixInputs: secrets well and badly     *)
(* formed, ids and timestamps empty, plain and with a "." in them, and     *)
(* svix-signature headers of up to MaxTokens tokens.                       *)
(***************************************************************************)
SvixSecrets ==
    {<<>>, GoodSecret, <<"whsec", "_", "b3Ro">>, <<"whsec">>, <<"whsec", "_", "?">>,
     <<"other", "_", "a2V5">>, <<"whsec", "_", "a2V5", "_", "b3Ro">>}
SvixIDs == {<<>>, <<"m">>, <<"m", ".", "1">>}
SvixTimestamps == {<<>>, <<"2">>, <<"1", ".", "2">>}
SvixBodies == {<<"{a}">>, <<"{b}">>}

\* The signature a sender holding key computes over (id, timestamp, body).
rawSig(key, svixID, svixTimestamp, body) ==
    EncodeToString(hmacSHA256(key, signedMsg(body, svixID, svixTimestamp)))

SenderSigs ==
    {rawSig(<<"key">>, i, t, b) : i \in SvixIDs, t \in SvixTimestamps, b \in SvixBodies}
    \cup {rawSig(<<"oth">>, <<"m">>, <<"2">>, <<"{a}">>)}

\* The tokens a header may hold around signature sig: sig under the tag v1
\* and under v2, sig with no tag, a forged signature, the empty token.
SvixTokens(sig) ==
    {<<"v1", ",">> \o sig, <<"v2", ",">> \o sig, sig, <<"v1", ",", "forged">>, <<>>}

TokenLists ==
    UNION {[1 .. n -> SvixTokens(sig)] : n \in 0 .. MaxTokens, sig \in SenderSigs}

RECURSIVE Join(_)
\* The header of the tokens: they are separated by one space.
Join(tokens) ==
    IF tokens = <<>> THEN <<>>
    ELSE IF Len(tokens) = 1 THEN tokens[1]
    ELSE tokens[1] \o <<" ">> \o Join(Tail(tokens))

SvixInputs ==
    {[body |-> b, secret |-> sec, svixID |-> i, svixTimestamp |-> t, tokens |-> toks] :
        b \in SvixBodies, sec \in SvixSecrets, i \in SvixIDs, t \in SvixTimestamps,
        toks \in TokenLists}

InitSvix ==
    /\ InitServer
    /\ users = <<>>
    /\ cfg = Config(MainBurst, GoodSecret)
    /\ hist = NoHist
    /\ probe \in {[fn |-> "verifySvix", in |-> i, out |-> FALSE, done |-> FALSE] :
                      i \in SvixInputs}

VerifySvix ==
    /\ probe.fn = "verifySvix"
    /\ ~probe.done
    /\ probe' = [probe EXCEPT
                   !.out = verifySvix(probe.in.body, probe.in.secret, probe.in.svixID,
                                      probe.in.svixTimestamp, Join(probe.in.tokens)),
                   !.done = TRUE]
    /\ UNCHANGED <<now, tickPending, sweepPc, mu, clients, limiters, cfg, req, users, hist>>

SpecSvix == InitSvix /\ [][VerifySvix]_vars

(***************************************************************************)
(* The properties.                                                         *)
(***************************************************************************)
\* Request s takes the step from get's lock to Allow / the step of Allow.
GetStep(s) == req[s].pc = "get" /\ req'[s].pc = "allow"
AllowStep(s) == req[s].pc = "allow" /\ req'[s].pc # "allow"

\* The webhook handler ran for the request, read its body, and the
\* signature of what it read does not verify.
BadlySigned(rq) ==
    /\ rq.in # NoInput
    /\ ~rq.in.readErr
    /\ ~verifySvix(rq.in.body, cfg.secret, rq.in.svixID, rq.in.svixTimestamp,
                   rq.in.svixSignature)

\* C1: a webhook request whose signature does not verify ends with 401, its
\* body never parsed and no store call made for it, also when the body is
\* malformed JSON (401, not 400).
C1_UnverifiedNeverParsed ==
    \A s \in Slots :
        BadlySigned(req[s]) =>
            /\ req[s].pc = "done"
            /\ req[s].status = StatusUnauthorized
            /\ ~req[s].parsed
            /\ req[s].calls = 0
            /\ req[s].op = ""

C1_Witness ==
    \E s \in Slots :
        /\ BadlySigned(req[s])
        /\ Unmarshal(req[s].in.body).err
        /\ req[s].status = StatusUnauthorized

\* C2: on every route, a request the limiter refuses is answered 429 and
\* takes no further step (no handler, verification, parse or store call);
\* a request it admits goes on to its handler with nothing answered yet.
C2_DeniedNeverHandled ==
    [][\A s \in Slots :
          /\ AllowStep(s) =>
               IF advance(limiters[req[s].lim], now) < Token
               THEN /\ req'[s].pc = "done"
                    /\ req'[s].status = StatusTooManyRequests
                    /\ req'[s].in = NoInput /\ req'[s].verified = ""
                    /\ ~req'[s].parsed /\ req'[s].calls = 0 /\ req'[s].op = ""
                    /\ users' = users
               ELSE /\ req'[s].pc = "handler"
                    /\ req'[s].status = 0
                    /\ req'[s].route = req[s].route
          /\ (req[s].status = StatusTooManyRequests /\ req'[s] # req[s]) =>
               req'[s].pc = "get"
      ]_vars

C2_Witness ==
    \E s, t \in Slots :
        /\ req[s].route = "webhook" /\ req[s].status = StatusTooManyRequests
        /\ req[t].route = "webhook" /\ req[t].pc = "store" /\ req[t].op = "upsert"

\* C3: with no time elapsed since the client's bucket was created, of the
\* N checks made so far exactly min(N, burst) were admitted (so the first
\* min(N, burst) were, and each later one was refused).
C3_BurstThenDenied ==
    \A ip \in IPs :
        now = 0 =>
            hist.admitted[ip] =
                IF hist.admitted[ip] + hist.denied[ip] < cfg.burst
                THEN hist.admitted[ip] + hist.denied[ip]
                ELSE cfg.burst

C3_Witness ==
    /\ now = 0
    /\ cfg.r = MainRate /\ cfg.burst = MainBurst
    /\ hist.admitted["a"] = 20
    /\ hist.denied["a"] = 5

\* C4: when a client's latest check was refused and at least one refill
\* interval (1/r seconds) has passed since, its next check is admitted.
C4_AdmittedAfterRefill ==
    [][\A s \in Slots :
          (/\ AllowStep(s)
           /\ hist.pending[req[s].ip]
           /\ (now - hist.refusedAt[req[s].ip]) * cfg.r >= Token)
          => req'[s].pc = "handler"
      ]_vars

C4_Witness ==
    \E s \in Slots :
        /\ req[s].pc = "handler"
        /\ hist.admitted["a"] = cfg.burst + 1
        /\ hist.denied["a"] = 1
        /\ hist.refusedAt["a"] = 0
        /\ ~hist.pending["a"]
        /\ now * cfg.r >= Token
        /\ (now - 1) * cfg.r < Token

\* C5: the steps of an admission check of one client leave every other
\* client's entry (its last_seen) and bucket as they were, no two entries
\* share a bucket, and the bucket made for a client new to the map is full
\* whatever the other buckets hold.
C5_OtherClientsUntouched ==
    [][\A s \in Slots :
          /\ (GetStep(s) \/ AllowStep(s)) =>
               \A ip \in IPs \ {req[s].ip} :
                   IF ip \in DOMAIN clients
                   THEN /\ ip \in DOMAIN clients'
                        /\ clients'[ip] = clients[ip]
                        /\ limiters'[clients[ip].limiter] = limiters[clients[ip].limiter]
                   ELSE ip \notin DOMAIN clients'
          /\ (GetStep(s) /\ req[s].ip \notin DOMAIN clients) =>
               /\ limiters'[req'[s].lim].tokens = cfg.burst * Token
               /\ \A ip \in DOMAIN clients : clients[ip].limiter # req'[s].lim
      ]_vars

C5_Witness ==
    \E s, t \in Slots :
        /\ req[s].ip = "a" /\ req[s].status = StatusTooManyRequests
        /\ "a" \in DOMAIN clients
        /\ advance(limiters[clients["a"].limiter], now) < Token
        /\ req[t].ip = "b" /\ req[t].pc = "handler"

\* C6: a pass of the sweep removes every entry whose last_seen is more than
\* the staleness threshold (10 minutes) old, and a request of a client that
\* has no entry gets a new entry with a new, full bucket.
C6_StaleEvictedThenFresh ==
    [][/\ (sweepPc = "pass" /\ sweepPc' = "wait") =>
            \A ip \in DOMAIN clients :
                now - clients[ip].lastSeen > StaleMinutes * 60 * TicksPerSecond
                    => ip \notin DOMAIN clients'
       /\ \A s \in Slots :
            (GetStep(s) /\ req[s].ip \notin DOMAIN clients) =>
                /\ req[s].ip \in DOMAIN clients'
                /\ clients'[req[s].ip].limiter = req'[s].lim
                /\ req'[s].lim \notin DOMAIN limiters
                /\ advance(limiters'[req'[s].lim], now) = cfg.burst * Token
      ]_vars

C6_Witness ==
    \E s, t \in Slots :
        /\ req[s].ip = "a" /\ req[s].status = StatusTooManyRequests
        /\ req[t].ip = "a" /\ req[t].pc = "allow"
        /\ "a" \in DOMAIN clients
        /\ clients["a"].limiter = req[t].lim
        /\ limiters[req[t].lim].tokens = cfg.burst * Token
        /\ now > StaleTicks

\* C7: every entry of the map has a bucket of its own; an entry appears
\* only by the get of a request of that client when the map has none for it,
\* disappears only in a pass of the sweep, and is never given another bucket.
C7_EntryLifecycle ==
    [][/\ \A ip \in DOMAIN clients :
            /\ clients[ip].limiter \in DOMAIN limiters
            /\ \A other \in DOMAIN clients \ {ip} :
                   clients[other].limiter # clients[ip].limiter
       /\ \A ip \in IPs :
            /\ (ip \notin DOMAIN clients /\ ip \in DOMAIN clients') =>
                   \E s \in Slots : GetStep(s) /\ req[s].ip = ip
            /\ (ip \in DOMAIN clients /\ ip \notin DOMAIN clients') =>
                   (sweepPc = "pass" /\ sweepPc' = "wait")
            /\ (ip \in DOMAIN clients /\ ip \in DOMAIN clients') =>
                   clients'[ip].limiter = clients[ip].limiter
      ]_vars

C7_Witness ==
    \E s \in Slots :
        /\ req[s].ip = "a" /\ req[s].status = StatusOK
        /\ DOMAIN clients = {"b"}

\* C8: the get of every admission check sets the client's last_seen to the
\* time of the check, and Allow leaves it so whether it admits or refuses.
C8_LastSeenIsCheckTime ==
    [][\A s \in Slots :
          /\ GetStep(s) =>
               /\ req[s].ip \in DOMAIN clients'
               /\ clients'[req[s].ip].lastSeen = now
          /\ AllowStep(s) => clients' = clients
      ]_vars

C8_Witness ==
    \E s \in Slots :
        /\ req[s].status = StatusTooManyRequests
        /\ req[s].ip \in DOMAIN clients
        /\ clients[req[s].ip].lastSeen = now
        /\ now > 0

\* What holds of the map under the lock: a request inside get and the sweep
\* in its pass hold ls.mu, and the map changes only in a step of its holder.
LockedMapAccess ==
    /\ \A s \in Slots : req[s].pc = "get" => mu = s
    /\ sweepPc = "pass" => mu = "sweep"
    /\ clients' # clients =>
         \/ mu = "sweep" /\ sweepPc = "pass"
         \/ mu \in Slots /\ GetStep(mu)

\* C9: every access to the map happens under the lock, the sweep holds it
\* for its whole pass, and the token of an admission check is taken (Allow)
\* while the request holds the lock.
C9_ConsumeUnderLock ==
    [][LockedMapAccess /\ \A s \in Slots : AllowStep(s) => mu = s]_vars

\* C10: a request holds the lock only inside get: not when Allow runs, not
\* when its handler runs, not while its store call is in flight.
C10_LockReleasedBeforeHandler ==
    \A s \in Slots :
        req[s].pc \in {"allow", "handler", "store", "done"} => mu # s

C10_Witness ==
    \E s, t \in Slots :
        /\ req[s].pc = "store" /\ req[s].op = "upsert"
        /\ req[t].pc = "get" /\ mu = t

\* The webhook handler ran for the request, the signature of the body it
\* read verifies and the body is an event document: the event.
Verified(rq) ==
    /\ rq.in # NoInput
    /\ ~rq.in.readErr
    /\ verifySvix(rq.in.body, cfg.secret, rq.in.svixID, rq.in.svixTimestamp,
                  rq.in.svixSignature)
    /\ ~Unmarshal(rq.in.body).err
EventOf(rq) == Unmarshal(rq.in.body).evt
UserEventTypes == {"user.created", "user.updated", "user.deleted"}

\* C11: a verified user.created, user.updated or user.deleted event whose
\* subject id is empty or only white space ends with a 200 acknowledgement
\* and no store call is made for it.
C11_BlankSubjectIgnored ==
    \A s \in Slots :
        (/\ Verified(req[s])
         /\ EventOf(req[s]).Type \in UserEventTypes
         /\ TrimSpace(EventOf(req[s]).ID) = <<>>)
        => /\ req[s].pc = "done"
           /\ req[s].status = StatusOK
           /\ req[s].body.ok /\ req[s].body.type = EventOf(req[s]).Type
           /\ req[s].calls = 0
           /\ req[s].op = ""

C11_Witness ==
    \E s, t \in Slots :
        /\ Verified(req[s]) /\ Verified(req[t])
        /\ EventOf(req[s]).Type = "user.deleted" /\ EventOf(req[s]).ID = <<" ", " ">>
        /\ EventOf(req[t]).Type = "user.updated" /\ EventOf(req[t]).ID = <<>>
        /\ req[s].status = StatusOK /\ req[t].status = StatusOK
        /\ req[t].body.ignored = "missing id"

\* C12: a verified event of a type other than user.created, user.updated,
\* user.deleted is acknowledged with 200 and no store call is made for it,
\* so the step that answers it leaves the users table as it was.
C12_OtherTypesAcknowledged ==
    [][\A s \in Slots :
          (/\ req[s].pc = "handler" /\ req'[s].pc # "handler"
           /\ Verified(req'[s])
           /\ EventOf(req'[s]).Type \notin UserEventTypes)
          => /\ req'[s].pc = "done"
             /\ req'[s].status = StatusOK
             /\ req'[s].body = Ack(EventOf(req'[s]).Type)
             /\ req'[s].calls = 0
             /\ users' = users
      ]_vars

C12_Witness ==
    \E s \in Slots :
        /\ Verified(req[s])
        /\ EventOf(req[s]).Type = "session.created"
        /\ req[s].status = StatusOK
        /\ users # <<>>

\* The store call of request s returns without an error, for operation op.
StoreDone(s, op) ==
    /\ req[s].pc = "store" /\ req[s].op = op
    /\ req'[s].pc = "done" /\ req'[s].status = StatusOK

\* C13: when the delete a verified user.deleted event of a non-blank
\* subject id calls for has run, the subject's row is still in the table,
\* inactive and with a deletion time.
C13_DeleteIsSoft ==
    [][\A s \in Slots :
          (StoreDone(s, "delete") /\ RowsOf(users, req[s].arg.ClerkID) # {})
          => \E i \in RowsOf(users', req[s].arg.ClerkID) :
                 /\ ~users'[i].is_active
                 /\ users'[i].deleted_at.Valid
      ]_vars

\* C14: when the upsert of a user.created or user.updated event has run, the
\* table holds exactly one row of the event's subject id and no id has two
\* rows, and the same upsert run again on that table leaves it as it is.
C14_UpsertIdempotent ==
    [][\A s \in Slots :
          StoreDone(s, "upsert")
          => /\ Cardinality(RowsOf(users', req[s].arg.ClerkID)) = 1
             /\ \A i, j \in 1 .. Len(users') :
                    users'[i].clerk_id = users'[j].clerk_id => i = j
             /\ UpsertByClerkID(users', req[s].arg) = [err |-> "", tbl |-> users']
      ]_vars

C14_Witness ==
    \E s, t \in Slots :
        /\ s # t
        /\ req[s].in.body = <<"{created u1 j}">> /\ req[t].in = req[s].in
        /\ req[s].pc = "done" /\ req[s].status = StatusOK
        /\ req[t].pc = "done" /\ req[t].status = StatusOK
        /\ Len(users) = 2
        /\ \E i, j \in 1 .. Len(users) : 
               users[i].clerk_id = <<"u1">> /\ users[j].clerk_id = <<"u2">>

\* The rows of the table that are not soft-deleted.
ActiveRows(tbl) == {i \in 1 .. Len(tbl) : ~tbl[i].deleted_at.Valid}

\* C15: the upsert of a user.created or user.updated event that inserts a
\* row gives it the role superadmin exactly when the table held no active
\* row, and the role user otherwise.
C15_FirstUserElevated ==
    [][\A s \in Slots :
          (StoreDone(s, "upsert") /\ RowsOf(users, req[s].arg.ClerkID) = {})
          => \A i \in RowsOf(users', req[s].arg.ClerkID) :
                 users'[i].role =
                     IF ActiveRows(users) = {} THEN "superadmin" ELSE "user"
      ]_vars

\* C16: an upsert, whether it inserts, updates or fails, leaves every row
\* there was in the table with the role it had; so a row that holds the
\* role superadmin holds it after any sequence of upserts.
C16_UpsertKeepsRole ==
    [][\A s \in Slots :
          (req[s].pc = "store" /\ req[s].op = "upsert" /\ req'[s].pc = "done")
          => /\ Len(users') >= Len(users)
             /\ \A i \in 1 .. Len(users) :
                    /\ users'[i].clerk_id = users[i].clerk_id
                    /\ users'[i].role = users[i].role
      ]_vars

C16_Witness ==
    \E s \in Slots, i \in 1 .. Len(users) :
        /\ req[s].in.body = <<"{updated u1 Ann}">>
        /\ req[s].pc = "done" /\ req[s].status = StatusOK
        /\ users[i].clerk_id = <<"u1">>
        /\ users[i].name = <<"Ann">>
        /\ users[i].role = "superadmin"

\* The superadmin rows among the rows of the subject ids in ids.
Elevated(tbl, ids) ==
    {i \in 1 .. Len(tbl) : tbl[i].clerk_id \in ids /\ tbl[i].role = "superadmin"}

\* C17: when the upserts of two events of different subject ids were in
\* flight together over a table with no active row and both have succeeded,
\* exactly one of the two rows has the role superadmin.
C17_OnePromotionUnderRace ==
    \A s, t \in Slots :
        (/\ hist.raced
         /\ s # t
         /\ req[s].pc = "done" /\ req[s].op = "upsert" /\ req[s].status = StatusOK
         /\ req[t].pc = "done" /\ req[t].op = "upsert" /\ req[t].status = StatusOK)
        => Cardinality(Elevated(users, {req[s].arg.ClerkID, req[t].arg.ClerkID})) = 1

C19_EmailKeptWhenNoneSelected ==
    [][\A s \in Slots :
          StoreDone(s, "upsert")
          => \A i \in RowsOf(users, req[s].arg.ClerkID) :
                 /\ users'[i].clerk_id = users[i].clerk_id
                 /\ users'[i].email =
                        IF pickClerkEmail(EventOf(req[s])) = <<>>
                        THEN users[i].email
                        ELSE [String |-> pickClerkEmail(EventOf(req[s])), Valid |-> TRUE]
      ]_vars

C19_Witness ==
    \E s, t \in Slots, i \in 1 .. Len(users) :
        /\ req[s].in.body = <<"{updated u1 Ann}">>
        /\ req[s].pc = "done" /\ req[s].status = StatusOK
        /\ req[t].in.body = <<"{created u1 j}">>
        /\ req[t].pc = "done" /\ req[t].status = StatusOK
        /\ users[i].clerk_id = <<"u1">>
        /\ users[i].name = <<"j">>
        /\ users[i].email = [String |-> <<"z@w.com">>, Valid |-> TRUE]

\* The positions of the candidates with an address that is not blank, and
\* of those among them with the id primary; the least of a set of positions.
NonBlank(es) == {i \in 1 .. Len(es) : TrimSpace(es[i].EmailAddress) # <<>>}
WithID(es, primary) == {i \in NonBlank(es) : es[i].ID = primary}
Least(S) == CHOOSE i \in S : \A j \in S : i <= j

\* The selection, stated by the least qualifying position.
SelectedEmail(evt) ==
    LET es == evt.EmailAddresses
        byID == WithID(es, evt.PrimaryEmailAddressID)
    IN  IF evt.PrimaryEmailAddressID # <<>> /\ byID # {}
        THEN ToLower(TrimSpace(es[Least(byID)].EmailAddress))
        ELSE IF NonBlank(es) # {}
        THEN ToLower(TrimSpace(es[Least(NonBlank(es))].EmailAddress))
        ELSE <<>>

\* C20: pickClerkEmail returns the address, trimmed and lower-cased, of the
\* first candidate with the primary id and a non-blank address when the
\* primary id is set and there is one, else that of the first candidate
\* with a non-blank address, else the empty string.
C20_PickEqualsSelection ==
    (probe.fn = "pickClerkEmail" /\ probe.done)
        => probe.out = SelectedEmail(probe.in)

C20_Witness ==
    /\ probe.fn = "pickClerkEmail" /\ probe.done
    /\ probe.in.PrimaryEmailAddressID = <<"e2">>
    /\ probe.in.EmailAddresses =
           <<[ID |-> <<"e1">>, EmailAddress |-> <<"X@y.com">>],
             [ID |-> <<"e2">>, EmailAddress |-> <<" ", "Z@W.com", " ">>]>>
    /\ probe.out = <<"z@w.com">>

\* C21: the display name is never empty: it is the trimmed first name, a
\* space and last name when that is not empty, else the trimmed username
\* when that is not empty, else "User".
C21_DisplayNameNeverEmpty ==
    (probe.fn = "displayName" /\ probe.done)
    => LET full == TrimSpace(probe.in.FirstName \o <<" ">> \o probe.in.LastName)
           user == TrimSpace(probe.in.Username)
       IN  /\ probe.out # <<>>
           /\ full # <<>> => probe.out = full
           /\ (full = <<>> /\ user # <<>>) => probe.out = user
           /\ (full = <<>> /\ user = <<>>) => probe.out = <<"User">>

C21_Witness ==
    /\ probe.fn = "displayName" /\ probe.done
    /\ probe.in.FirstName = <<" ">> /\ probe.in.LastName = <<>>
    /\ probe.in.Username = <<" ">>
    /\ probe.out = <<"User">>

\* The arguments the upsert of each user.created and user.updated document
\* of a non-blank subject should get: subject id, username, name, email.
Text(s) == [String |-> s, Valid |-> TRUE]
Null == [String |-> <<>>, Valid |-> FALSE]
ExpectedUpsert ==
    (<<"{created u1 j}">> :>
        [ClerkID |-> <<"u1">>, Username |-> Text(<<"j">>), Name |-> <<"j">>, Email |-> Null])
    @@ (<<"{updated u1 Ann}">> :>
        [ClerkID |-> <<"u1">>, Username |-> Null, Name |-> <<"Ann">>,
         Email |-> Text(<<"z@w.com">>)])
    @@ (<<"{created u2 k}">> :>
        [ClerkID |-> <<"u2">>, Username |-> Text(<<"k">>), Name |-> <<"k">>, Email |-> Null])
    @@ (<<"{updated u2 j}">> :>
        [ClerkID |-> <<"u2">>, Username |-> Text(<<"j">>), Name |-> <<"j">>, Email |-> Null])

\* C22: for a verified user.created or user.updated event of a non-blank
\* subject id the handler makes one upsert call, with the trimmed subject
\* id, the display name and the selected email, makes no other store call,
\* and answers a successful upsert with 200 and the event type echoed.
C22_OneUpsertWithDerivedArgs ==
    [][\A s \in Slots :
          /\ (/\ req[s].pc = "handler" /\ req'[s].pc # "handler"
              /\ Verified(req'[s])
              /\ EventOf(req'[s]).Type \in {"user.created", "user.updated"}
              /\ TrimSpace(EventOf(req'[s]).ID) # <<>>)
             => /\ req'[s].pc = "store"
                /\ req'[s].op = "upsert"
                /\ req'[s].calls = 1
                /\ req'[s].in.body \in DOMAIN ExpectedUpsert
                /\ req'[s].arg = ExpectedUpsert[req'[s].in.body]
          /\ StoreDone(s, "upsert")
             => /\ req'[s].calls = 1
                /\ req'[s].arg = req[s].arg
                /\ req'[s].body = [NoBody EXCEPT !.ok = TRUE,
                                                 !.type = EventOf(req[s]).Type]
      ]_vars

C22_Witness ==
    \E s \in Slots :
        /\ req[s].in.body = <<"{created u1 j}">>
        /\ req[s].pc = "done" /\ req[s].status = StatusOK
        /\ req[s].calls = 1
        /\ req[s].arg = [ClerkID |-> <<"u1">>, Username |-> Text(<<"j">>),
                         Name |-> <<"j">>, Email |-> Null]
        /\ req[s].body.ok /\ req[s].body.type = "user.created"
        /\ \E i \in 1 .. Len(users) :
               users[i].clerk_id = <<"u1">> /\ users[i].name = <<"j">>

\* verifySvix has been applied to the input of the probe.
Probed == probe.fn = "verifySvix" /\ probe.done

\* The well-formed secrets and the HMAC key each holds.
SecretKeys ==
    (GoodSecret :> <<"key">>) @@ (<<"whsec", "_", "b3Ro">> :> <<"oth">>)

\* The token a sender holding the probe's secret makes for (id, ts, body).
SenderToken(svixID, svixTimestamp, body) ==
    <<"v1", ",">> \o rawSig(SecretKeys[probe.in.secret], svixID, svixTimestamp, body)

\* C23: verifySvix returns false whenever the secret, the id header, the
\* timestamp header or the signature header is empty.
C23_FailsClosedOnEmpty ==
    (/\ Probed
     /\ \/ probe.in.secret = <<>>
        \/ probe.in.svixID = <<>>
        \/ probe.in.svixTimestamp = <<>>
        \/ Join(probe.in.tokens) = <<>>)
    => ~probe.out

C23_Witness ==
    /\ Probed
    /\ probe.in.secret = GoodSecret
    /\ probe.in.svixID = <<>>
    /\ probe.in.svixTimestamp = <<"2">>
    /\ probe.in.tokens = <<SenderToken(<<>>, <<"2">>, probe.in.body)>>
    /\ ~probe.out

\* C24: with a well-formed secret and an id and a timestamp that are not
\* empty, the header "v1," + base64(HMAC(key, id.ts.body)) verifies; the
\* header made for an input that differs in the body alone, the id alone or
\* the timestamp alone does not.
C24_SignatureRoundTrip ==
    (/\ Probed
     /\ probe.in.secret \in DOMAIN SecretKeys
     /\ probe.in.svixID # <<>> /\ probe.in.svixTimestamp # <<>>)
    => /\ probe.in.tokens =
              <<SenderToken(probe.in.svixID, probe.in.svixTimestamp, probe.in.body)>>
          => probe.out
       /\ \A i \in SvixIDs \ {probe.in.svixID} :
              probe.in.tokens = <<SenderToken(i, probe.in.svixTimestamp, probe.in.body)>>
              => ~probe.out
       /\ \A t \in SvixTimestamps \ {probe.in.svixTimestamp} :
              probe.in.tokens = <<SenderToken(probe.in.svixID, t, probe.in.body)>>
              => ~probe.out
       /\ \A b \in SvixBodies \ {probe.in.body} :
              probe.in.tokens = <<SenderToken(probe.in.svixID, probe.in.svixTimestamp, b)>>
              => ~probe.out

C24_Witness ==
    /\ Probed
    /\ probe.in.secret = GoodSecret
    /\ probe.in.svixID = <<"m", ".", "1">>
    /\ probe.in.svixTimestamp = <<"2">>
    /\ probe.in.body = <<"{b}">>
    /\ probe.in.tokens = <<SenderToken(<<"m", ".", "1">>, <<"2">>, <<"{a}">>)>>
    /\ ~probe.out

\* C25: with a well-formed secret and headers that are not empty,
\* verifySvix returns true exactly when some token of the signature header
\* is "v1," followed by the expected signature; tokens of another tag or
\* with no comma neither match nor keep a later token from matching.
C25_AnyV1TokenMatches ==
    (/\ Probed
     /\ probe.in.secret \in DOMAIN SecretKeys
     /\ probe.in.svixID # <<>> /\ probe.in.svixTimestamp # <<>>
     /\ Join(probe.in.tokens) # <<>>)
    => (probe.out <=>
          \E i \in 1 .. Len(probe.in.tokens) :
              probe.in.tokens[i] =
                  SenderToken(probe.in.svixID, probe.in.svixTimestamp, probe.in.body))

C25_Witness ==
    /\ Probed
    /\ probe.in.secret = GoodSecret
    /\ probe.in.svixID = <<"m">> /\ probe.in.svixTimestamp = <<"2">>
    /\ probe.in.tokens =
           <<<<"v2", ",">> \o rawSig(<<"key">>, <<"m">>, <<"2">>, probe.in.body),
             SenderToken(<<"m">>, <<"2">>, probe.in.body)>>
    /\ probe.out

\* The statement of C24 without the condition on the headers: for every id
\* and timestamp, the header made from them verifies.
C24_RoundTripAnyHeaders ==
    (/\ Probed
     /\ probe.in.secret \in DOMAIN SecretKeys
     /\ probe.in.tokens =
            <<SenderToken(probe.in.svixID, probe.in.svixTimestamp, probe.in.body)>>)
    => probe.out

\* Request s has been admitted to its route and has its response.
Answered(s, route) ==
    /\ req[s].route = route
    /\ req[s].pc = "done"
    /\ req[s].status # StatusTooManyRequests

\* The status the order of C26 gives to a webhook request.
StatusInOrder(rq) ==
    IF rq.in.readErr THEN StatusBadRequest
    ELSE IF ~verifySvix(rq.in.body, cfg.secret, rq.in.svixID, rq.in.svixTimestamp,
                        rq.in.svixSignature)
    THEN StatusUnauthorized
    ELSE IF Unmarshal(rq.in.body).err THEN StatusBadRequest
    ELSE IF rq.err # "" THEN StatusInternalServerError
    ELSE StatusOK

\* C26: an admitted webhook request has no response while its handler or
\* its store call runs, and then one response that stays: 400 if the body
\* cannot be read, else 401 if the signature does not verify, else 400 if
\* the body is not JSON, else 500 if the store call returned an error, else
\* 200 with the acknowledgement of the event type.
C26_StatusInOrder ==
    /\ [](\A s \in Slots :
            /\ (req[s].route = "webhook" /\ req[s].pc \in {"handler", "store"})
               => req[s].status = 0
            /\ Answered(s, "webhook")
               => /\ req[s].status = StatusInOrder(req[s])
                  /\ req[s].err # "" => req[s].calls = 1
                  /\ req[s].status = StatusOK
                     => req[s].body.ok /\ req[s].body.type = EventOf(req[s]).Type)
    /\ [][\A s \in Slots :
            (Answered(s, "webhook") /\ req'[s] # req[s]) => req'[s].pc = "get"]_vars

C26_Witness ==
    /\ Answered("s1", "webhook")
    /\ req["s1"].in.body = <<"{bad">>
    /\ req["s1"].verified = "ok"
    /\ req["s1"].status = StatusBadRequest
    /\ Answered("s2", "webhook")
    /\ req["s2"].err = "connection refused"
    /\ req["s2"].status = StatusInternalServerError

\* C30: an admitted GET /health is answered 200, with status ok when the
\* probe of the store succeeded and with status degraded when it failed.
C30_HealthNeverFails ==
    \A s \in Slots :
        Answered(s, "health")
        => /\ req[s].status = StatusOK
           /\ req[s].calls = 1
           /\ req[s].err = "" => req[s].body.status = "ok" /\ req[s].body.db = "up"
           /\ req[s].err # ""
              => req[s].body.status = "degraded" /\ req[s].body.db = "down"

C30_Witness ==
    /\ Answered("s1", "health")
    /\ req["s1"].err = "connection refused"
    /\ req["s1"].body.status = "degraded"
    /\ Answered("s2", "health")
    /\ req["s2"].err = ""
    /\ req["s2"].body.status = "ok"

\* C27: a webhook request whose store call failed gets a response body
\* that is the same whatever the store's error was: two such requests of
\* the same delivery have the same response, and the body does not carry
\* the text of the store's error.
C27_OpaqueStoreError ==
    \A s, t \in Slots :
        (/\ Answered(s, "webhook") /\ req[s].err # ""
         /\ Answered(t, "webhook") /\ req[t].err # ""
         /\ req[s].in = req[t].in)
        => /\ req[s].status = req[t].status
           /\ req[s].body = req[t].body
           /\ req[s].body.error # req[s].err

\* C29: when the delete of a verified user.deleted event returns and the
\* table holds no row of the subject (there never was one, or it has been
\* deleted), the table is left as it is and the absence is not an error:
\* the response is 200, or the 500 of a store that could not be reached.
C29_DeleteOfAbsentIsNoError ==
    [][\A s \in Slots :
         (/\ req[s].pc = "store" /\ req[s].op = "delete"
          /\ RowsOf(users, req[s].arg.ClerkID) = {}
          /\ req'[s].pc = "done")
         => /\ users' = users
            /\ req'[s].err \in StoreFailures
            /\ req'[s].err = ""
               => /\ req'[s].status = StatusOK
                  /\ req'[s].body.ok /\ req'[s].body.type = "user.deleted"]_vars

C29_Witness ==
    /\ hist.left = MaxDeliveries - 2
    /\ \A s \in Slots :
          /\ Answered(s, "webhook")
          /\ req[s].in.body = <<"{deleted u1}">>
          /\ req[s].op = "delete" /\ req[s].arg.ClerkID = <<"u1">>
          /\ req[s].err = ""
          /\ req[s].status = StatusOK
    /\ RowsOf(users, <<"u1">>) = {}

\* C28: with the webhook secret empty the server serves, no webhook
\* request is answered 200 or makes a store call, and the users table
\* never changes.
C28_NoSecretRejectsAll ==
    /\ [](cfg.secret = <<>>
          => \A s \in Slots :
                req[s].route = "webhook"
                => /\ req[s].status # StatusOK
                   /\ req[s].calls = 0
                   /\ req[s].op = ""
                   /\ req[s].pc # "store")
    /\ [][cfg.secret = <<>> => users' = users]_vars

C28_Witness ==
    /\ cfg.secret = <<>>
    /\ Answered("s1", "webhook")
    /\ req["s1"].in = Delivery(<<"{deleted u1}">>,
                               sigFor(<<>>, <<"msg1">>, <<"17">>, <<"{deleted u1}">>))
    /\ req["s1"].status = StatusUnauthorized
    /\ RowsOf(users, <<"u1">>) # {}
    /\ Answered("s2", "health")
    /\ req["s2"].status = StatusOK

\* Position k is the first separator of the secret.
FirstSeparator(secret, k) ==
    /\ k \in 1 .. Len(secret)
    /\ secret[k] = "_"
    /\ \A j \in 1 .. k - 1 : secret[j] # "_"

\* The bytes the base64 groups after position k stand for.
PayloadBytes(secret, k) == [j \in 1 .. Len(secret) - k |-> B64[secret[k + j]]]

\* C37: verifySvix returns false when the secret holds no "_" or when what
\* follows its first "_" is not base64; otherwise, with headers that are
\* not empty, it verifies exactly the v1 tokens made with the bytes that
\* the part after the first "_" decodes to, whatever the prefix is.
C37_KeyIsPayloadAfterFirstSeparator ==
    Probed =>
        /\ (\A k \in 1 .. Len(probe.in.secret) : probe.in.secret[k] # "_") => ~probe.out
        /\ \A k \in 1 .. Len(probe.in.secret) :
              FirstSeparator(probe.in.secret, k) =>
                 IF \E j \in k + 1 .. Len(probe.in.secret) :
                        probe.in.secret[j] \notin DOMAIN B64
                 THEN ~probe.out
                 ELSE (/\ probe.in.svixID # <<>> /\ probe.in.svixTimestamp # <<>>
                       /\ Join(probe.in.tokens) # <<>>)
                      => (probe.out <=>
                            \E i \in 1 .. Len(probe.in.tokens) :
                                probe.in.tokens[i] =
                                    <<"v1", ",">> \o
                                    rawSig(PayloadBytes(probe.in.secret, k),
                                           probe.in.svixID, probe.in.svixTimestamp,
                                           probe.in.body))

C37_Witness ==
    /\ Probed
    /\ probe.in.secret = <<"whsec", "_", "a2V5", "_", "b3Ro">>
    /\ probe.in.svixID = <<"m">> /\ probe.in.svixTimestamp = <<"2">>
    /\ probe.in.body = <<"{a}">>
    /\ probe.in.tokens = <<<<"v1", ",">> \o rawSig(<<"oth">>, <<"m">>, <<"2">>, <<"{a}">>)>>
    /\ ~probe.out

\* C38: the result of verifySvix does not depend on the time or on what
\* was handled before: a valid delivery sent again, at any later time and
\* any number of times, is verified again and its upsert is sent to the
\* store again.
C38_ReplayVerifiesAgain ==
    \A s \in Slots :
        (/\ req[s].route = "webhook"
         /\ req[s].pc \in {"store", "done"}
         /\ req[s].status # StatusTooManyRequests
         /\ req[s].in = ReplayedDelivery)
        => /\ req[s].verified = "ok"
           /\ req[s].calls = 1
           /\ req[s].op = "upsert"
           /\ req[s].arg.ClerkID = <<"u1">>

C38_Witness ==
    /\ now = StaleTicks + 1
    /\ hist.left = 0
    /\ \A s \in Slots :
          /\ Answered(s, "webhook")
          /\ req[s].in = ReplayedDelivery
          /\ req[s].verified = "ok"
          /\ req[s].calls = 1
          /\ req[s].status = StatusOK
    /\ Len(users) = 1

\* C39: when the upsert of a verified user.created or user.updated event
\* has run on a subject that has a row, the row's username is null if the
\* event's username is blank and the trimmed username otherwise, and the
\* row's name is the display name derived from the event.
C39_UsernameAndNameReplaced ==
    [][\A s \in Slots :
          (StoreDone(s, "upsert") /\ RowsOf(users, req[s].arg.ClerkID) # {})
          => \A i \in RowsOf(users', req[s].arg.ClerkID) :
                /\ RowsOf(users', req[s].arg.ClerkID) # {}
                /\ users'[i].username =
                      IF \A k \in 1 .. Len(EventOf(req[s]).Username) :
                             EventOf(req[s]).Username[k] = " "
                      THEN Null
                      ELSE ExpectedUpsert[req[s].in.body].Username
                /\ users'[i].name = ExpectedUpsert[req[s].in.body].Name
      ]_vars

C39_Witness ==
    /\ \E i \in 1 .. Len(users) :
          /\ users[i].clerk_id = <<"u1">>
          /\ users[i].role = "superadmin"
          /\ users[i].username = Null
          /\ users[i].name = <<"Ann">>
    /\ \E i \in 1 .. Len(users) :
          /\ users[i].clerk_id = <<"u2">>
          /\ users[i].username = Text(<<"j">>)
          /\ users[i].name = <<"j">>
    /\ Answered("s1", "webhook")
    /\ req["s1"].in.body = <<"{created u2 k}">>
    /\ req["s1"].status = StatusOK
    /\ Answered("s2", "webhook")
    /\ req["s2"].in.body = <<"{updated u2 j}">>
    /\ req["s2"].status = StatusOK

\* C36: a webhook request makes at most one store call; the step in which
\* the call returns ends the request with no further call, and with 500
\* when the call failed.
C36_OneStoreCallNoRetry ==
    /\ [](\A s \in Slots : req[s].route = "webhook" => req[s].calls <= 1)
    /\ [][\A s \in Slots :
            (req[s].route = "webhook" /\ req[s].pc = "store" /\ req'[s] # req[s])
            => /\ req'[s].pc = "done"
               /\ req'[s].calls = req[s].calls
               /\ req'[s].err # "" =>
                     /\ req'[s].status = StatusInternalServerError
                     /\ users' = users]_vars

C36_Witness ==
    /\ Answered("s1", "webhook")
    /\ req["s1"].in.body = <<"{created u2 k}">>
    /\ req["s1"].err = "connection refused"
    /\ req["s1"].status = StatusInternalServerError
    /\ req["s1"].calls = 1
    /\ RowsOf(users, <<"u2">>) = {}
    /\ Answered("s2", "webhook")
    /\ req["s2"].in.body = <<"{deleted u1}">>
    /\ req["s2"].calls = 1
    /\ req["s2"].status = StatusOK

\* C32: the checks of a client admitted in an interval of T seconds are at
\* most burst + r * T, whatever the arrivals and the interleaving of the
\* requests, while the client's entry stays in the map.
C32_RateBound ==
    (hist.admitted["a"] - hist.since.admitted) * Token
        <= cfg.burst * Token + cfg.r * (now - hist.since.at)

C32_Witness ==
    /\ hist.since.at = 2
    /\ hist.since.admitted = 0
    /\ now = 4
    /\ (hist.admitted["a"] - hist.since.admitted) * Token
           = cfg.burst * Token + cfg.r * (now - hist.since.at)
    /\ hist.denied["a"] >= 1
    /\ "a" \in DOMAIN clients

\* C33: a pass of the sweep leaves in the map, with its bucket as it was,
\* every entry whose last_seen is no more than the staleness threshold
\* (10 minutes) before the time of the pass.
C33_SweepKeepsFreshEntries ==
    [][(sweepPc = "pass" /\ sweepPc' = "wait") =>
          \A ip \in DOMAIN clients :
              now - clients[ip].lastSeen <= StaleMinutes * 60 * TicksPerSecond
              => /\ ip \in DOMAIN clients'
                 /\ clients'[ip] = clients[ip]
                 /\ clients[ip].limiter \in DOMAIN limiters'
                 /\ limiters'[clients[ip].limiter] = limiters[clients[ip].limiter]
      ]_vars

C33_Witness ==
    /\ now = StaleTicks
    /\ ~tickPending /\ sweepPc = "wait"
    /\ "a" \in DOMAIN clients
    /\ clients["a"].lastSeen = 0
    /\ limiters[clients["a"].limiter].tokens = 0
    /\ \E s \in Slots : req[s].ip = "a" /\ req[s].status = StatusTooManyRequests

\* C34: the bucket an admission check takes its token from (or is refused
\* by) is, at that moment, the bucket of the client's entry in the map.
C34_ConsumesFromStoredBucket ==
    [][\A s \in Slots :
          AllowStep(s) =>
              /\ req[s].ip \in DOMAIN clients
              /\ clients[req[s].ip].limiter = req[s].lim
      ]_vars

\* C35: requests of one client handled at the same time share one entry
\* and one bucket: a bucket is made only by a get that finds no entry of
\* the client, requests between get and Allow hold the bucket of the
\* entry, and with no time elapsed the client is admitted at most burst
\* times.
C35_OneEntryForConcurrentRequests ==
    /\ [](/\ \A s, t \in Slots :
               (req[s].pc = "allow" /\ req[t].pc = "allow" /\ req[s].ip = req[t].ip)
               => /\ req[s].lim = req[t].lim
                  /\ req[s].ip \in DOMAIN clients
                  /\ clients[req[s].ip].limiter = req[s].lim
          /\ Cardinality(DOMAIN limiters) <= 1
          /\ now = 0 => hist.admitted["a"] <= cfg.burst)
    /\ [][\A s \in Slots :
            (GetStep(s) /\ DOMAIN limiters' # DOMAIN limiters)
            => req[s].ip \notin DOMAIN clients]_vars

C35_Witness ==
    /\ now = 0
    /\ hist.admitted["a"] + hist.denied["a"] = 0
    /\ \A s \in Slots : req[s].pc = "allow" /\ req[s].ip = "a"
    /\ req["s1"].lim = req["s2"].lim
    /\ DOMAIN clients = {"a"}
    /\ limiters[req["s1"].lim].tokens = cfg.burst * Token

\* C31: when DATABASE_URL is empty at the start, main stops before it
\* serves: no request is ever taken, none is answered, and the limiter
\* store stays empty.
C31_NoServingWithoutDatabaseURL ==
    cfg.dsn = ""
    => /\ cfg.mainPc \in {"start", "panic"}
       /\ \A s \in Slots : req[s] = IdleReq
       /\ clients = <<>> /\ limiters = <<>>
       /\ mu = "" /\ sweepPc = "wait"

C31_Witness ==
    /\ cfg.dsn = ""
    /\ cfg.mainPc = "panic"
    /\ \A s \in Slots : req[s].pc = "idle"

====
